---- MODULE Spec2Model ----
(***************************************************************************)
(* Congressional Politics Simulator: the turn-processing state machine of  *)
(* bill_simulator.py (variant 1) and bill_simulator2.py (variant 2).       *)
(*                                                                         *)
(* One step of the model is one run of the Streamlit script, started by    *)
(* one user interaction (a button, the text box, a sidebar widget).  The   *)
(* oracle (the chat-completion call) is the environment: its reply is      *)
(* drawn from OracleReplies.                                               *)
(*                                                                         *)
(* Python floats are kept as exact fixed-point numbers: every percentage   *)
(* is an integer count of 1/Scale percentage points.  A seat share is a    *)
(* multiple of 1/435 or 1/100 of a point, so the representation is exact.  *)
(***************************************************************************)
EXTENDS Integers, Sequences, FiniteSets, TLC

VARIABLES
    variant,            \* 1: bill_simulator.py, 2: bill_simulator2.py
    your_chamber,       \* sidebar: "House" | "Senate"
    your_party,         \* sidebar: "Democrat" | "Republican"
    district_lean,      \* sidebar: one of the five Cook PVI options
    chamber_D,          \* sidebar slider: Democratic seats
    ss,                 \* st.session_state: a record, a key is a field
    event,              \* the widget that started the last script run
    action,             \* the text box content the last run read (<<>>: none)
    narrative,          \* local of the last run (NoText when not assigned)
    data,               \* local of the last run (NoData when not assigned)
    reelection_chance,  \* local of the last run (None when not assigned)
    outcome,            \* the terminal message the last run printed
    verdict,            \* the reelection verdict of the final-results view
    branch,             \* the branch of the main loop the last run took
    deviations          \* environment: off-script events in this session

vars == <<variant, your_chamber, your_party, district_lean, chamber_D, ss,
          event, action, narrative, data, reelection_chance, outcome,
          verdict, branch, deviations>>

config == <<your_chamber, your_party, district_lean, chamber_D>>

(***************************************************************************)
(* Bounds of the model.                                                    *)
(***************************************************************************)
BigDelta == 150        \* magnitude of an out-of-policy oracle value
MaxDeviations == 1     \* off-script events per session

(***************************************************************************)
(* Program constants.                                                      *)
(***************************************************************************)
HouseSeats == 435
SenateSeats == 100
MaxTurns == 8
StallFloor == 20
RiskCeiling == 10
FirstTurnSupport == 35
BaselineOffset == 12
BaselineFloor == 20
BaselineCeiling == 60
CapBonus == 5
MajorityOffset == 15
InitialPublic == 50
WinLine == 50
ComfortLine == 70
SurvivalLine == 40
MajorityThreshold == 51
ClotureThreshold == 60

Scale == HouseSeats * SenateSeats
Pct(n) == n * Scale

None == -1             \* Python None, for support and for unassigned numbers
NoText == "(unassigned)"
NoData == [unassigned |-> TRUE]

PyMax(a, b) == IF b > a THEN b ELSE a
PyMin(a, b) == IF b < a THEN b ELSE a

\* Python round() of a non-negative fixed-point number: half to even.
PyRound(x) ==
    LET q == x \div Scale
        r == x % Scale
    IN  IF 2 * r < Scale THEN q
        ELSE IF 2 * r > Scale THEN q + 1
        ELSE IF q % 2 = 0 THEN q ELSE q + 1

(***************************************************************************)
(* Text.  A string is a sequence of one-character strings.                 *)
(***************************************************************************)
Str_Dplus == <<"D", "+">>
Str_Rplus == <<"R", "+">>
Str_EVEN == <<"E", "V", "E", "N">>
Str_reconciliation ==
    <<"r", "e", "c", "o", "n", "c", "i", "l", "i", "a", "t", "i", "o", "n">>

LeanOptions ==
    << <<"D", "+", "1", "0">>, <<"D", "+", "5">>, <<"E", "V", "E", "N">>,
       <<"R", "+", "5">>, <<"R", "+", "1", "0">> >>

\* Python: sub in s
Contains(sub, s) ==
    \E i \in 0..(Len(s) - Len(sub)) : SubSeq(s, i + 1, i + Len(sub)) = sub

LowerChar(c) ==
    CASE c = "R" -> "r" [] c = "E" -> "e" [] c = "C" -> "c" [] c = "O" -> "o"
      [] c = "N" -> "n" [] c = "I" -> "i" [] c = "L" -> "l" [] c = "A" -> "a"
      [] c = "T" -> "t" [] c = "W" -> "w" [] c = "H" -> "h" [] c = "P" -> "p"
      [] OTHER -> c

\* Python: s.lower()
Lower(s) == [i \in 1..Len(s) |-> LowerChar(s[i])]

(***************************************************************************)
(* Sidebar.                                                                *)
(***************************************************************************)
Seats(chamber) == IF chamber = "House" THEN HouseSeats ELSE SenateSeats

chamber_R_of(chamber, d) == Seats(chamber) - d

chamber_R == chamber_R_of(your_chamber, chamber_D)

DefaultLean(v) == IF v = 1 THEN LeanOptions[3] ELSE LeanOptions[1]

DefaultConfig(v) ==
    [chamber |-> "House", party |-> "Democrat", lean |-> DefaultLean(v),
     d |-> 218]

\* The seat compositions and member profiles the model explores.
Configs ==
    { DefaultConfig(1), DefaultConfig(2),
      [chamber |-> "Senate", party |-> "Republican", lean |-> LeanOptions[2],
       d |-> 0],
      [chamber |-> "House", party |-> "Democrat", lean |-> LeanOptions[5],
       d |-> 0] }

(***************************************************************************)
(* Initial st.session_state.                                               *)
(***************************************************************************)
InitialState ==
    [turn |-> 1, support |-> None, public |-> InitialPublic,
     chamber_progress |-> 0, reelection_risk |-> 0, history |-> <<>>,
     trends |-> <<>>, game_over |-> FALSE, input_counter |-> 0]

(***************************************************************************)
(* The oracle: what client.chat.completions.create can do.                 *)
(***************************************************************************)
ZeroRecord ==
    [support_change |-> 0, public_change |-> 0,
     chamber_progress_change |-> 0, reelection_risk |-> 0]

Reply(text, obj) == [raises |-> FALSE, text |-> text, decodes |-> TRUE, object |-> obj]

ScenarioReply ==
    Reply("scenario",
          [support_change |-> 5, public_change |-> 0,
           chamber_progress_change |-> 15, reelection_risk |-> 2])

OffScriptReplies ==
    { [raises |-> TRUE, text |-> "exception", decodes |-> FALSE, object |-> ZeroRecord],
      [raises |-> FALSE, text |-> "prose only", decodes |-> FALSE, object |-> ZeroRecord],
      Reply("setback",
            [support_change |-> -8, public_change |-> -10,
             chamber_progress_change |-> -10, reelection_risk |-> -3]),
      Reply("landslide",
            [support_change |-> BigDelta, public_change |-> BigDelta,
             chamber_progress_change |-> BigDelta, reelection_risk |-> BigDelta]),
      Reply("collapse",
            [support_change |-> -BigDelta, public_change |-> -BigDelta,
             chamber_progress_change |-> -BigDelta, reelection_risk |-> -BigDelta]),
      Reply("pyrrhic",
            [support_change |-> -BigDelta, public_change |-> -7,
             chamber_progress_change |-> BigDelta, reelection_risk |-> 12]),
      Reply("no risk",
            [support_change |-> BigDelta, public_change |-> BigDelta,
             chamber_progress_change |-> BigDelta]) }

\* Replies whose object lacks the first key the submit branch reads.
KeylessReplies ==
    { Reply("empty object", [unassigned |-> TRUE]),
      Reply("no support",
            [public_change |-> 0, chamber_progress_change |-> 0,
             reelection_risk |-> 0]) }

OracleReplies == {ScenarioReply} \cup OffScriptReplies \cup KeylessReplies

Text_whip == <<"w", "h", "i", "p">>
Text_RECON ==
    <<"R", "E", "C", "O", "N", "C", "I", "L", "I", "A", "T", "I", "O", "N">>
ActionTexts == {Text_whip, Text_RECON}

(***************************************************************************)
(* Seat arithmetic.                                                        *)
(***************************************************************************)
\* gpt_simulate: chamber_total, with its defensive guard
ChamberTotal(d, r) == IF d + r = 0 THEN 1 ELSE d + r

\* (seats / total) * 100 for the player's party
PartyShare(party, d, r, total) ==
    IF party = "Democrat" THEN (d * 100 * Scale) \div total
    ELSE (r * 100 * Scale) \div total

\* Variation: no seat-share cap.
SupportCap_Uncapped(party, d, r) == Pct(100)

\* support_cap = min(100, party_share + 5)
SupportCap(party, d, r) ==
    PyMin(Pct(100), PartyShare(party, d, r, d + r) + Pct(CapBonus))

\* gpt_simulate: round(max(20, min(party_share - 12, 60)))
ChamberBaseline(party, d, r) ==
    PyRound(PyMax(Pct(BaselineFloor),
                  PyMin(PartyShare(party, d, r, ChamberTotal(d, r))
                            - Pct(BaselineOffset),
                        Pct(BaselineCeiling))))

\* main loop, first-turn branch: round((chamber_D / (chamber_D + chamber_R)) * 100)
MajorityShare(d, r) == PyRound((d * 100 * Scale) \div (d + r))

(***************************************************************************)
(* max(lo, min(hi, x)), the clamp every update is written as.              *)
(***************************************************************************)
\* Variation: the floor alone.
Clamp_FloorOnly(x, lo, hi) == PyMax(lo, x)

Clamp(x, lo, hi) == PyMax(lo, PyMin(hi, x))

(***************************************************************************)
(* calc_reelection_chance                                                  *)
(***************************************************************************)
\* Variation: the lean's letter alone decides, whatever the party.
AlignmentBase_AnyParty(party, lean) ==
    IF Contains(Str_Dplus, lean) \/ Contains(Str_Rplus, lean)
    THEN WinLine + 15
    ELSE IF Contains(Str_EVEN, lean) THEN WinLine + 5
    ELSE WinLine - 10

AlignmentBase(party, lean) ==
    IF \/ (party = "Democrat" /\ Contains(Str_Dplus, lean))
       \/ (party = "Republican" /\ Contains(Str_Rplus, lean))
    THEN WinLine + 15
    ELSE IF Contains(Str_EVEN, lean) THEN WinLine + 5
    ELSE WinLine - 10

calc_reelection_chance(party, lean, s) ==
    LET base == AlignmentBase(party, lean)
        chance == base + (s.public - InitialPublic) - s.reelection_risk
    IN  PyMax(0, PyMin(100, chance))

(***************************************************************************)
(* update_trends                                                           *)
(***************************************************************************)
TrendRow(s, chance) ==
    [Turn |-> s.turn, Support |-> s.support, Public |-> s.public,
     ReelectionRisk |-> s.reelection_risk, ReelectionChance |-> chance,
     ChamberProgress |-> s.chamber_progress]

\* Variation: the log keeps the latest row only.
update_trends_Restart(s, chance) ==
    [s EXCEPT !.trends = <<TrendRow(s, chance)>>]

update_trends(s, chance) ==
    [s EXCEPT !.trends = Append(@, TrendRow(s, chance))]

(***************************************************************************)
(* gpt_simulate                                                            *)
(***************************************************************************)
\* Variation: the call computes no baseline.
SetBaseline_Never(s, party, d, r) == s

\* bill_simulator.py: "Compute baseline once at game start"
SetBaseline(s, party, d, r) ==
    IF "support" \notin DOMAIN s \/ s.support = None
    THEN [s EXCEPT !.support = Pct(ChamberBaseline(party, d, r))]
    ELSE s

\* Variation: the keyword is matched as typed.
DetectReconciliation_CaseSensitive(s, action_text) ==
    LET s1 == IF "reconciliation_discussed" \notin DOMAIN s
              THEN ("reconciliation_discussed" :> FALSE) @@ s
              ELSE s
    IN  IF Contains(Str_reconciliation, action_text)
        THEN [s1 EXCEPT !.reconciliation_discussed = TRUE]
        ELSE s1

\* bill_simulator.py: "Detect reconciliation (once mentioned, stays True)"
DetectReconciliation(s, action_text) ==
    LET s1 == IF "reconciliation_discussed" \notin DOMAIN s
              THEN ("reconciliation_discussed" :> FALSE) @@ s
              ELSE s
    IN  IF Contains(Str_reconciliation, Lower(action_text))
        THEN [s1 EXCEPT !.reconciliation_discussed = TRUE]
        ELSE s1

\* Variation: an undecodable reply is handed on as it is.
ParseReply_Unguarded(reply) == IF reply.decodes THEN reply.object ELSE NoData

\* text[text.index("{"): text.rindex("}") + 1], json.loads, except -> zeros
ParseReply(reply) == IF reply.decodes THEN reply.object ELSE ZeroRecord

\* What the call leaves in st.session_state before the request is sent.
PrePromptState(v, s, action_text, party, d, r) ==
    IF v = 1 THEN DetectReconciliation(SetBaseline(s, party, d, r), action_text)
    ELSE s

gpt_simulate(v, s, action_text, reply, party, d, r) ==
    [ss |-> PrePromptState(v, s, action_text, party, d, r),
     narrative |-> IF reply.raises THEN "GPT error" ELSE reply.text,
     data |-> IF reply.raises THEN ZeroRecord ELSE ParseReply(reply)]

(***************************************************************************)
(* The submit branch: the four updates, in the order of the source.  A     *)
(* data[...] on a missing key raises KeyError: the run stops there and     *)
(* keeps what it had already written.                                      *)
(***************************************************************************)
\* Variation: the seat-share cap in both variants.
NewSupport_Capped(v, s, change, party, d, r) ==
    IF s.support = None
    THEN Clamp(Pct(FirstTurnSupport + change), 0, SupportCap(party, d, r))
    ELSE Clamp(s.support + Pct(change), 0, SupportCap(party, d, r))

NewSupport(v, s, change, party, d, r) ==
    IF v = 1
    THEN IF s.support = None
         THEN Clamp(Pct(MajorityShare(d, r) - MajorityOffset + change), 0,
                    SupportCap(party, d, r))
         ELSE Clamp(s.support + Pct(change), 0, SupportCap(party, d, r))
    ELSE IF s.support = None
         THEN Clamp(Pct(FirstTurnSupport + change), 0, Pct(100))
         ELSE Clamp(s.support + Pct(change), 0, Pct(100))

NewPublic(s, firstTurn, change) ==
    IF firstTurn THEN Clamp(InitialPublic + change, 0, 100)
    ELSE Clamp(s.public + change, 0, 100)

\* Variation: no floor at 0.
NewProgress_NoFloor(s, change) == PyMin(100, s.chamber_progress + change)

\* Variation: progress does not move.
NewProgress_Stuck(s, change) == s.chamber_progress

NewProgress(s, change) == Clamp(s.chamber_progress + change, 0, 100)

\* Variation: the oracle's value is added with its sign.
NewRisk_Signed(v, s, risk) ==
    IF v = 1 THEN Clamp(risk, 0, RiskCeiling)
    ELSE s.reelection_risk + risk

\* Variation: the risk is overwritten in both variants.
NewRisk_Overwrite(v, s, risk) == Clamp(risk, 0, RiskCeiling)

NewRisk(v, s, risk) ==
    IF v = 1 THEN Clamp(risk, 0, RiskCeiling)
    ELSE s.reelection_risk + PyMax(0, risk)

\* How many of the four reads succeed before the first KeyError.
KeysRead(d) ==
    IF "support_change" \notin DOMAIN d THEN 0
    ELSE IF "public_change" \notin DOMAIN d THEN 1
    ELSE IF "chamber_progress_change" \notin DOMAIN d THEN 2
    ELSE IF "reelection_risk" \notin DOMAIN d THEN 3
    ELSE 4

ApplyDeltas(v, s, d, party, cd, cr) ==
    LET n == KeysRead(d)
        first == s.support = None
        s1 == IF n >= 1
              THEN [s EXCEPT !.support =
                        NewSupport(v, s, d.support_change, party, cd, cr)]
              ELSE s
        s2 == IF n >= 2
              THEN [s1 EXCEPT !.public = NewPublic(s, first, d.public_change)]
              ELSE s1
        s3 == IF n >= 3
              THEN [s2 EXCEPT !.chamber_progress =
                        NewProgress(s, d.chamber_progress_change)]
              ELSE s2
    IN  IF n >= 4
        THEN [s3 EXCEPT !.reelection_risk = NewRisk(v, s, d.reelection_risk)]
        ELSE s3

\* Variation: the turn is logged in trend_log but not in history.
CommitTurn_NoHistory(s, action_text, narr, chance) ==
    LET s1 == update_trends(s, chance)
    IN  [s1 EXCEPT !.turn = @ + 1]

\* update_trends, history.append, turn += 1
CommitTurn(s, action_text, narr, chance) ==
    LET s1 == update_trends(s, chance)
        s2 == [s1 EXCEPT !.history = Append(@, <<action_text, narr>>)]
    IN  [s2 EXCEPT !.turn = @ + 1]

\* Variation: the stall check comes first.
OutcomeOf_StallFirst(s, chance) ==
    IF s.support # None /\ s.support < Pct(StallFloor)
    THEN "Stalled Bill (support)"
    ELSE IF s.chamber_progress >= 100
         THEN IF chance >= WinLine THEN "Full Victory" ELSE "Costly Victory"
         ELSE "none"

\* "Outcome checks": the message of the branch taken, "none" when none is
OutcomeOf(s, chance) ==
    IF s.chamber_progress >= 100
    THEN IF chance >= WinLine THEN "Full Victory" ELSE "Costly Victory"
    ELSE IF s.support # None /\ s.support < Pct(StallFloor)
         THEN "Stalled Bill (support)"
         ELSE "none"

\* Variation: every accepted turn ends the game.
CheckOutcome_Always(s, chance) == [s EXCEPT !.game_over = TRUE]

CheckOutcome(s, chance) ==
    IF OutcomeOf(s, chance) # "none" THEN [s EXCEPT !.game_over = TRUE] ELSE s

\* if submit: if action: ... (an accepted turn, or a run ended by KeyError)
SubmitBranch(v, s, action_text, reply, party, lean, d, r) ==
    LET g == gpt_simulate(v, s, action_text, reply, party, d, r)
        s1 == ApplyDeltas(v, g.ss, g.data, party, d, r)
        chance == calc_reelection_chance(party, lean, s1)
        s2 == CommitTurn(s1, action_text, g.narrative, chance)
        s3 == CheckOutcome(s2, chance)
    IN  IF KeysRead(g.data) = 4
        THEN [ss |-> [s3 EXCEPT !.input_counter = @ + 1],
              branch |-> "accepted", narrative |-> g.narrative,
              data |-> g.data, chance |-> chance,
              outcome |-> OutcomeOf(s2, chance), verdict |-> "none"]
        ELSE [ss |-> s1, branch |-> "raised", narrative |-> g.narrative,
              data |-> g.data,
              chance |-> calc_reelection_chance(party, lean, s),
              outcome |-> "none", verdict |-> "none"]

(***************************************************************************)
(* The main loop and the final-results view: one run of the script.        *)
(***************************************************************************)
Quiet(s, br, chance, out, ver) ==
    [ss |-> s, branch |-> br, narrative |-> NoText, data |-> NoData,
     chance |-> chance, outcome |-> out, verdict |-> ver]

FinalVerdict(final_chance) ==
    IF final_chance > ComfortLine THEN "reelected comfortably"
    ELSE IF final_chance > SurvivalLine THEN "narrowly survived"
    ELSE "lost your seat"

\* Variation: the form stays up after the game has ended.
MainBranch_FormAfterEnd(s) ==
    IF s.turn > MaxTurns THEN "timeout" ELSE "form"

\* Variation: a ninth turn.
MainBranch_NineTurns(s) ==
    IF ~s.game_over
    THEN IF s.turn > MaxTurns + 1 THEN "timeout" ELSE "form"
    ELSE "final"

\* Which branch of "if not game_over: if turn > 8: ... else: ... else: ..."
MainBranch(s) ==
    IF ~s.game_over
    THEN IF s.turn > MaxTurns THEN "timeout" ELSE "form"
    ELSE "final"

\* Variation: an empty submission uses up a turn.
ScriptRun_EmptyCounts(v, s, ev, text, reply, party, lean, d, r) ==
    LET chance == calc_reelection_chance(party, lean, s)
    IN  CASE MainBranch(s) = "timeout" ->
               Quiet([s EXCEPT !.game_over = TRUE], "timeout", None,
                     "Stalled Bill (timeout)", "none")
          [] MainBranch(s) = "final" ->
               Quiet(s, "final", None, "none", FinalVerdict(chance))
          [] OTHER ->
               IF ev = "clear"
               THEN Quiet([s EXCEPT !.input_counter = @ + 1], "cleared",
                          chance, "none", "none")
               ELSE IF ev = "submit"
               THEN IF text # <<>>
                    THEN SubmitBranch(v, s, text, reply, party, lean, d, r)
                    ELSE Quiet([s EXCEPT !.turn = @ + 1], "warned", chance,
                               "none", "none")
               ELSE Quiet(s, "form", chance, "none", "none")

ScriptRun(v, s, ev, text, reply, party, lean, d, r) ==
    LET chance == calc_reelection_chance(party, lean, s)
    IN  CASE MainBranch(s) = "timeout" ->
               Quiet([s EXCEPT !.game_over = TRUE], "timeout", None,
                     "Stalled Bill (timeout)", "none")
          [] MainBranch(s) = "final" ->
               Quiet(s, "final", None, "none", FinalVerdict(chance))
          [] OTHER ->
               IF ev = "clear"
               THEN Quiet([s EXCEPT !.input_counter = @ + 1], "cleared",
                          chance, "none", "none")
               ELSE IF ev = "submit"
               THEN IF text # <<>>
                    THEN SubmitBranch(v, s, text, reply, party, lean, d, r)
                    ELSE Quiet(s, "warned", chance, "none", "none")
               ELSE Quiet(s, "form", chance, "none", "none")

(***************************************************************************)
(* Steps.  Every step is one script run; Run sets the variables from it.   *)
(***************************************************************************)
FormShown == branch \in {"form", "cleared", "warned", "accepted", "raised"}

Run(ev, text, reply, cfg, cost) ==
    LET res == ScriptRun(variant, ss, ev, text, reply, cfg.party, cfg.lean,
                         cfg.d, chamber_R_of(cfg.chamber, cfg.d))
    IN  /\ deviations + cost <= MaxDeviations
        /\ deviations' = deviations + cost
        /\ your_chamber' = cfg.chamber
        /\ your_party' = cfg.party
        /\ district_lean' = cfg.lean
        /\ chamber_D' = cfg.d
        /\ ss' = res.ss
        /\ event' = ev
        /\ action' = IF MainBranch(ss) = "form" THEN text ELSE <<>>
        /\ narrative' = res.narrative
        /\ data' = res.data
        /\ reelection_chance' = res.chance
        /\ outcome' = res.outcome
        /\ verdict' = res.verdict
        /\ branch' = res.branch
        /\ UNCHANGED variant

CurrentConfig ==
    [chamber |-> your_chamber, party |-> your_party, lean |-> district_lean,
     d |-> chamber_D]

\* What a submission takes from the session's budget of off-script events:
\* one for an off-script reply, one for an off-script action text.  A
\* keyless reply is not charged: the run ends in KeyError before any delta
\* is applied.
SubmitCost(text, reply) ==
    (IF reply \in OffScriptReplies THEN 1 ELSE 0)
        + (IF text # Text_whip THEN 1 ELSE 0)

\* "Submit Action" with a non-empty text box
SubmitAction(text, reply) ==
    /\ FormShown
    /\ Run("submit", text, reply, CurrentConfig,
           IF MainBranch(ss) = "form" THEN SubmitCost(text, reply) ELSE 0)

\* "Submit Action" with an empty text box
SubmitEmpty ==
    /\ FormShown
    /\ Run("submit", <<>>, ScenarioReply, CurrentConfig, 0)

\* "Clear Box"
ClearBox ==
    /\ FormShown
    /\ Run("clear", <<>>, ScenarioReply, CurrentConfig,
           IF MainBranch(ss) = "form" THEN 1 ELSE 0)

\* A sidebar widget is changed: a run with no button pressed.  Setting up
\* before anything is submitted is free, and so is the edit that leaves the
\* timeout message (that page has no other widget); any other edit is an
\* off-script event.
SidebarEdit(cfg) ==
    /\ cfg # CurrentConfig
    /\ Run("sidebar", <<>>, ScenarioReply, cfg,
           IF ss = InitialState \/ branch = "timeout" THEN 0 ELSE 1)

\* Variation: the initial values are assigned again, other keys are kept.
PlayAgain_KeepsKeys(cfg) ==
    /\ branch = "final"
    /\ ss.game_over
    /\ your_chamber' = cfg.chamber
    /\ your_party' = cfg.party
    /\ district_lean' = cfg.lean
    /\ chamber_D' = cfg.d
    /\ ss' = [k \in DOMAIN ss |->
                 IF k \in DOMAIN InitialState THEN InitialState[k] ELSE ss[k]]
    /\ event' = "play_again"
    /\ action' = <<>>
    /\ narrative' = NoText
    /\ data' = NoData
    /\ reelection_chance' =
           calc_reelection_chance(cfg.party, cfg.lean, InitialState)
    /\ outcome' = "none"
    /\ verdict' = "none"
    /\ branch' = "form"
    /\ deviations' = 0
    /\ UNCHANGED variant

\* Variation: the button is there in every view.
PlayAgain_Anytime(cfg) ==
    /\ your_chamber' = cfg.chamber
    /\ your_party' = cfg.party
    /\ district_lean' = cfg.lean
    /\ chamber_D' = cfg.d
    /\ ss' = InitialState
    /\ event' = "play_again"
    /\ action' = <<>>
    /\ narrative' = NoText
    /\ data' = NoData
    /\ reelection_chance' =
           calc_reelection_chance(cfg.party, cfg.lean, InitialState)
    /\ outcome' = "none"
    /\ verdict' = "none"
    /\ branch' = "form"
    /\ deviations' = 0
    /\ UNCHANGED variant

\* "Play Again": every key of st.session_state is deleted and the script is
\* rerun.  The sidebar widgets' keys are among them, so the rerun reads the
\* sidebar either as it was or at its defaults.
PlayAgain(cfg) ==
    /\ branch = "final"
    /\ ss.game_over
    /\ your_chamber' = cfg.chamber
    /\ your_party' = cfg.party
    /\ district_lean' = cfg.lean
    /\ chamber_D' = cfg.d
    /\ ss' = InitialState
    /\ event' = "play_again"
    /\ action' = <<>>
    /\ narrative' = NoText
    /\ data' = NoData
    /\ reelection_chance' =
           calc_reelection_chance(cfg.party, cfg.lean, InitialState)
    /\ outcome' = "none"
    /\ verdict' = "none"
    /\ branch' = "form"
    /\ deviations' = 0
    /\ UNCHANGED variant

Init ==
    /\ variant \in {1, 2}
    /\ your_chamber = DefaultConfig(variant).chamber
    /\ your_party = DefaultConfig(variant).party
    /\ district_lean = DefaultConfig(variant).lean
    /\ chamber_D = DefaultConfig(variant).d
    /\ ss = InitialState
    /\ event = "load"
    /\ action = <<>>
    /\ narrative = NoText
    /\ data = NoData
    /\ reelection_chance =
           calc_reelection_chance(DefaultConfig(variant).party,
                                  DefaultConfig(variant).lean, InitialState)
    /\ outcome = "none"
    /\ verdict = "none"
    /\ branch = "form"
    /\ deviations = 0

Next ==
    \/ \E text \in ActionTexts, reply \in OracleReplies :
           SubmitAction(text, reply)
    \/ SubmitEmpty
    \/ ClearBox
    \/ \E cfg \in Configs : SidebarEdit(cfg)
    \/ \E cfg \in {CurrentConfig, DefaultConfig(variant)} : PlayAgain(cfg)

Spec == Init /\ [][Next]_vars

(***************************************************************************)
(* calc_reelection_chance over every member profile: the session is set up *)
(* with any party and lean, and one turn moves public approval and         *)
(* reelection risk anywhere in their ranges.                               *)
(***************************************************************************)
Profiles ==
    { [chamber |-> c, party |-> p, lean |-> LeanOptions[i],
       d |-> IF c = "House" THEN 218 ELSE 51] :
          c \in {"House", "Senate"}, p \in {"Democrat", "Republican"},
          i \in 1..5 }

PollReplies ==
    { Reply("poll",
            [support_change |-> 0, public_change |-> 5 * p,
             chamber_progress_change |-> 0, reelection_risk |-> r]) :
          p \in -11..11, r \in -1..(RiskCeiling + 2) }

ChanceInit ==
    /\ variant \in {1, 2}
    /\ \E cfg \in Profiles :
          /\ your_chamber = cfg.chamber
          /\ your_party = cfg.party
          /\ district_lean = cfg.lean
          /\ chamber_D = cfg.d
          /\ reelection_chance =
                 calc_reelection_chance(cfg.party, cfg.lean, InitialState)
    /\ ss = InitialState
    /\ event = "sidebar"
    /\ action = <<>>
    /\ narrative = NoText
    /\ data = NoData
    /\ outcome = "none"
    /\ verdict = "none"
    /\ branch = "form"
    /\ deviations = 0

PollTurn ==
    \E reply \in PollReplies :
        /\ ss.turn = 1
        /\ FormShown
        /\ Run("submit", Text_whip, reply, CurrentConfig, 1)

SpecChance == ChanceInit /\ [][PollTurn]_vars

(***************************************************************************)
(* Claims.                                                                 *)
(***************************************************************************)
Accepted == branch = "accepted"

Victories == {"Full Victory", "Costly Victory"}

PartySeats == IF your_party = "Democrat" THEN chamber_D ELSE chamber_R

\* C1: in both variants, after every accepted turn and for any integer
\* deltas of the oracle, support (once established), public approval and
\* chamber progress are each within [0,100].
C1_PercentagesInRange ==
    Accepted =>
        /\ ss.support # None
        /\ 0 <= ss.support /\ ss.support <= 100 * Scale
        /\ 0 <= ss.public /\ ss.public <= 100
        /\ 0 <= ss.chamber_progress /\ ss.chamber_progress <= 100

\* C1 witness: an accepted turn whose deltas were far out of range, above
\* and below, left the three fields at the ends of [0,100].
C1_Witness ==
    /\ Accepted
    /\ data.chamber_progress_change > 100
    /\ data.support_change < -100
    /\ ss.chamber_progress = 100
    /\ ss.support = 0

\* C2: in bill_simulator.py, after every accepted turn
\* 0 <= support <= min(100, party seat share + 5) and reelection_risk is
\* clamp(oracle reelection_risk, 0, 10), whatever it was before.
C2_SupportCapAndRisk ==
    (variant = 1 /\ Accepted) =>
        /\ 0 <= ss.support
        /\ ss.support <= 100 * Scale
        /\ ss.support * (chamber_D + chamber_R)
              <= Scale * (100 * PartySeats + 5 * (chamber_D + chamber_R))
        /\ 0 <= ss.reelection_risk /\ ss.reelection_risk <= 10
        /\ ss.reelection_risk =
              (IF data.reelection_risk < 0 THEN 0
               ELSE IF data.reelection_risk > 10 THEN 10
               ELSE data.reelection_risk)

\* C2 witness: a turn of variant 1 that left support on a cap below 100,
\* after a turn whose risk was higher than the one the oracle now gave.
C2_Witness ==
    /\ variant = 1
    /\ Accepted
    /\ Len(ss.trends) >= 2
    /\ ss.trends[Len(ss.trends) - 1].ReelectionRisk > ss.reelection_risk
    /\ ss.trends[Len(ss.trends) - 1].Support = ss.support
    /\ ss.support * (chamber_D + chamber_R)
          = Scale * (100 * PartySeats + 5 * (chamber_D + chamber_R))
    /\ ss.support < 100 * Scale

\* C3 (as claimed): in bill_simulator2.py, 0 <= reelection_risk <= 10 after
\* every accepted turn.
C3_RiskWithinTen ==
    (variant = 2 /\ Accepted) =>
        (0 <= ss.reelection_risk /\ ss.reelection_risk <= 10)

PreviousRisk ==
    IF Len(ss.trends) >= 2
    THEN ss.trends[Len(ss.trends) - 1].ReelectionRisk
    ELSE 0

\* C3 (amended): in bill_simulator2.py, after every accepted turn
\* reelection_risk is its previous value plus max(0, oracle
\* reelection_risk): it is never negative and has no upper bound of 10.
C3_RiskAccumulates ==
    (variant = 2 /\ Accepted) =>
        /\ ss.reelection_risk >= 0
        /\ ss.reelection_risk =
              PreviousRisk
                  + (IF data.reelection_risk > 0 THEN data.reelection_risk
                     ELSE 0)

\* C3 witness: a turn of variant 2 that took the risk from a positive value
\* to one above 10.
C3_Witness ==
    /\ variant = 2
    /\ Accepted
    /\ PreviousRisk > 0
    /\ ss.reelection_risk > 10

C5_TurnCounter ==
    /\ [](/\ Len(ss.history) = Len(ss.trends)
          /\ ss.turn = Len(ss.history) + 1)
    /\ [][/\ branch' = "accepted" =>
                /\ ss'.turn = ss.turn + 1
                /\ Len(ss'.history) = Len(ss.history) + 1
                /\ Len(ss'.trends) = Len(ss.trends) + 1
          /\ (branch' # "accepted" /\ event' # "play_again") =>
                /\ ss'.turn = ss.turn
                /\ Len(ss'.history) = Len(ss.history)
                /\ Len(ss'.trends) = Len(ss.trends)
          /\ event' = "play_again" =>
                (ss'.turn = 1 /\ ss'.history = <<>> /\ ss'.trends = <<>>)
         ]_vars

\* C5 witness: the state after the eighth accepted action of a session.
C5_Witness ==
    /\ Accepted
    /\ ss.turn = MaxTurns + 1
    /\ Len(ss.history) = MaxTurns
    /\ Len(ss.trends) = MaxTurns

\* C6: in both variants, once game_over is true it stays true and no run
\* changes turn, support, public approval, progress, reelection risk,
\* history or trend_log, until Play Again.
C6_GameOverFreezes ==
    [][(ss.game_over /\ event' # "play_again") =>
           /\ ss'.game_over
           /\ ss'.turn = ss.turn
           /\ ss'.support = ss.support
           /\ ss'.public = ss.public
           /\ ss'.chamber_progress = ss.chamber_progress
           /\ ss'.reelection_risk = ss.reelection_risk
           /\ ss'.history = ss.history
           /\ ss'.trends = ss.trends
      ]_vars

\* C6 witness: Submit Action was pressed after the game had ended, with
\* turns left, and the run showed the final results.
C6_Witness ==
    /\ ss.game_over
    /\ ss.turn <= MaxTurns
    /\ event = "submit"
    /\ branch = "final"

LastRow == ss.trends[Len(ss.trends)]

\* C7: in both variants, after each accepted turn: progress >= 100 ends the
\* game, as Full Victory when the post-turn reelection chance is >= 50 and
\* as Costly Victory when it is < 50; otherwise support < 20 ends it as
\* Stalled Bill.  Progress >= 100 with support < 20 is a victory.
C7_OutcomeOrder ==
    Accepted =>
        IF ss.chamber_progress >= 100
        THEN /\ ss.game_over
             /\ LastRow.ReelectionChance >= 50 => outcome = "Full Victory"
             /\ LastRow.ReelectionChance < 50 => outcome = "Costly Victory"
        ELSE ss.support < 20 * Scale =>
                 (ss.game_over /\ outcome = "Stalled Bill (support)")

\* C7 witness: an accepted turn left progress >= 100 and support < 20, and
\* the run declared a victory.
C7_Witness ==
    /\ Accepted
    /\ ss.chamber_progress >= 100
    /\ ss.support < 20 * Scale
    /\ outcome \in Victories

\* C8: in both variants, at most 8 actions are accepted per session.  When
\* the 8th leaves progress < 100 and support >= 20, turn is 9 and the next
\* run sets game_over with the timeout message and processes no action;
\* when the 8th reaches progress >= 100 the run declares a victory, and the
\* timeout message is only ever printed by a run that found the game not
\* over after 8 accepted turns.
C8_TurnLimit ==
    /\ [](Len(ss.history) <= 8)
    /\ []((Accepted /\ Len(ss.history) = 8) =>
             IF ss.chamber_progress >= 100
             THEN ss.game_over /\ outcome \in Victories
             ELSE ss.support >= 20 * Scale =>
                      (ss.turn = 9 /\ ~ss.game_over))
    /\ [][(ss.turn = 9 /\ ~ss.game_over) =>
              /\ ss'.game_over
              /\ outcome' = "Stalled Bill (timeout)"
              /\ data' = NoData
              /\ ss'.turn = ss.turn
              /\ ss'.history = ss.history
              /\ ss'.trends = ss.trends
         ]_vars
    /\ [][outcome' = "Stalled Bill (timeout)" =>
              /\ ~ss.game_over
              /\ Len(ss.history) = 8
              /\ ss.chamber_progress < 100
         ]_vars

\* C8 witness: Submit Action was pressed at turn 9 and the run printed the
\* timeout message instead of processing the action.
C8_Witness ==
    /\ outcome = "Stalled Bill (timeout)"
    /\ event = "submit"
    /\ ss.game_over
    /\ Len(ss.history) = 8

\* C9: in both variants, if the user keeps submitting non-empty actions and
\* every oracle call returns, game_over becomes true after at most 8
\* accepted actions plus one further run: turn never passes 9 while the game
\* is on, and every run that processes a non-empty submission either ends
\* the game or adds one to turn.
C9_SubmissionsEndGame ==
    /\ [](ss.game_over \/ ss.turn <= MaxTurns + 1)
    /\ [][(event' = "submit" /\ action' # <<>>) =>
              (ss'.game_over \/ ss'.turn = ss.turn + 1)
         ]_vars

\* C10: in both variants, calc_reelection_chance returns
\* clamp(50 + alignment_bonus + (public_approval - 50) - reelection_risk,
\* 0, 100), alignment_bonus being +15 for D+5/D+10 and a Democrat or
\* R+5/R+10 and a Republican, +5 for EVEN and -10 otherwise; the result is
\* in [0,100], and it is 55 for public approval 50, risk 0 and lean EVEN.
C10_ReelectionChance ==
    branch \in {"form", "accepted", "cleared", "warned"} =>
        LET alignment_bonus ==
                IF \/ /\ your_party = "Democrat"
                      /\ district_lean \in {LeanOptions[1], LeanOptions[2]}
                   \/ /\ your_party = "Republican"
                      /\ district_lean \in {LeanOptions[4], LeanOptions[5]}
                THEN 15
                ELSE IF district_lean = LeanOptions[3] THEN 5 ELSE -10
            raw == 50 + alignment_bonus + (ss.public - 50)
                       - ss.reelection_risk
        IN  /\ reelection_chance =
                  (IF raw < 0 THEN 0 ELSE IF raw > 100 THEN 100 ELSE raw)
            /\ 0 <= reelection_chance /\ reelection_chance <= 100
            /\ (ss.public = 50 /\ ss.reelection_risk = 0
                    /\ district_lean = LeanOptions[3])
                   => reelection_chance = 55

\* C10 witness: a turn was accepted in an EVEN district and left public
\* approval at 50 and risk at 0; the chance computed after it is 55.
C10_Witness ==
    /\ Accepted
    /\ district_lean = LeanOptions[3]
    /\ ss.public = 50
    /\ ss.reelection_risk = 0
    /\ reelection_chance = 55

\* C11: in bill_simulator.py, the first accepted turn sets support to
\* clamp(B + support_change, 0, support_cap), B being the rounded baseline
\* (party seat share minus 12, within [20,60]) and support_cap being
\* min(100, party share + 5), and sets public approval to
\* clamp(50 + public_change, 0, 100).
C11_FirstTurnBaseline ==
    (variant = 1 /\ Accepted /\ Len(ss.history) = 1) =>
        /\ ss.support =
              Clamp(Pct(ChamberBaseline(your_party, chamber_D, chamber_R))
                        + Pct(data.support_change),
                    0, SupportCap(your_party, chamber_D, chamber_R))
        /\ ss.public = Clamp(InitialPublic + data.public_change, 0, 100)

\* C11, read for sessions in which no run was cut short before the first
\* accepted turn: the last run before it was not one ended by KeyError.
C11_FirstTurnAfterCleanRuns ==
    [][(variant = 1 /\ branch' = "accepted" /\ Len(ss'.history) = 1
            /\ ss.support = None) =>
           /\ ss'.support =
                 Clamp(Pct(ChamberBaseline(your_party', chamber_D',
                                           chamber_R_of(your_chamber',
                                                        chamber_D')))
                           + Pct(data'.support_change),
                       0,
                       SupportCap(your_party', chamber_D',
                                  chamber_R_of(your_chamber', chamber_D')))
           /\ ss'.public = Clamp(InitialPublic + data'.public_change, 0, 100)
      ]_vars

\* A submission whose oracle call failed, or whose reply had no decodable
\* object: the narrative is the error placeholder or the raw text.
DegradedNarratives == {"GPT error", "prose only"}

Degraded == event = "submit" /\ narrative \in DegradedNarratives

\* C12: in both variants, gpt_simulate returns the all-zero record and a
\* narrative string whenever the oracle call fails or the reply has no
\* decodable object; no exception reaches the caller: the run goes on to
\* accept the turn.
C12_FailureGivesZeroRecord ==
    /\ Degraded =>
          /\ data = [support_change |-> 0, public_change |-> 0,
                     chamber_progress_change |-> 0, reelection_risk |-> 0]
          /\ branch = "accepted"
          /\ ss.history[Len(ss.history)][2] = narrative
    /\ (event = "submit" /\ action # <<>> /\ branch = "raised") =>
          narrative \notin DegradedNarratives

\* C12 witness: a failed call was turned into the placeholder narrative and
\* the zero record after an earlier turn had been accepted.
C12_Witness ==
    /\ Degraded
    /\ narrative = "GPT error"
    /\ data = ZeroRecord
    /\ Len(ss.history) >= 2

\* C13: in both variants, when the reply decodes to an object lacking any
\* of the four fields, the all-zero record is used and the turn advances:
\* turn + 1, one history entry, one trend_log entry, no numeric effect.
C13_MissingFieldsDefaulted ==
    [][(event' = "submit" /\ data' # NoData /\ KeysRead(data') < 4) =>
           /\ ss'.turn = ss.turn + 1
           /\ Len(ss'.history) = Len(ss.history) + 1
           /\ Len(ss'.trends) = Len(ss.trends) + 1
           /\ ss'.public = ss.public
           /\ ss'.chamber_progress = ss.chamber_progress
      ]_vars

\* C14: in both variants, a degraded turn (failed call or undecodable reply)
\* adds exactly one to turn and one entry to history and to trend_log, and
\* leaves support (when already established), public approval and chamber
\* progress at their pre-turn values.
C14_DegradedTurnKeepsFields ==
    [][(event' = "submit" /\ narrative' \in DegradedNarratives) =>
           /\ ss'.turn = ss.turn + 1
           /\ Len(ss'.history) = Len(ss.history) + 1
           /\ Len(ss'.trends) = Len(ss.trends) + 1
           /\ ss.support # None => ss'.support = ss.support
           /\ ss'.public = ss.public
           /\ ss'.chamber_progress = ss.chamber_progress
      ]_vars

\* C15: in bill_simulator.py, a degraded turn leaves reelection_risk at its
\* pre-turn value, and so the reelection chance computed after it is the
\* one the pre-turn state gives.
C15_DegradedTurnKeepsRisk ==
    [][(variant = 1 /\ event' = "submit"
            /\ narrative' \in DegradedNarratives) =>
           /\ ss'.reelection_risk = ss.reelection_risk
           /\ reelection_chance' =
                 calc_reelection_chance(your_party', district_lean', ss)
      ]_vars

\* C16: in both variants and for every seat composition, a degraded turn
\* that is not the 8th never ends the game: game_over false before it is
\* game_over false after it, the first turn of a session included.
C16_DegradedTurnNotTerminal ==
    [][(event' = "submit" /\ narrative' \in DegradedNarratives
            /\ ~ss.game_over /\ ss.turn # MaxTurns) =>
           (~ss'.game_over /\ outcome' = "none")
      ]_vars

\* The sidebar of the end-to-end scenario, and a session in which nothing
\* off-script has happened: every accepted turn got the scenario's record.
ScenarioConfig ==
    /\ your_chamber = "House"
    /\ your_party = "Democrat"
    /\ district_lean = LeanOptions[3]
    /\ chamber_D = 218

ScenarioSession ==
    /\ ScenarioConfig
    /\ deviations = 0
    /\ \A i \in 1..Len(ss.history) : ss.history[i][2] = "scenario"

\* C17: House, Democrat, EVEN, 218 D / 217 R, every turn returning
\* (+5, 0, +15, 2): progress is 60 after the 4th accepted turn, game_over
\* is false after each of turns 1 to 6, the 7th accepted turn ends the game
\* with progress >= 100, as Full Victory if the chance then is >= 50.
C17_Scenario ==
    (ScenarioSession /\ Accepted) =>
        /\ Len(ss.history) <= 7
        /\ Len(ss.history) = 4 => ss.chamber_progress = 60
        /\ Len(ss.history) <= 6 => (~ss.game_over /\ outcome = "none")
        /\ Len(ss.history) = 7 =>
              /\ ss.game_over
              /\ ss.chamber_progress >= 100
              /\ ss.trends[6].ChamberProgress < 100
              /\ outcome \in Victories
              /\ LastRow.ReelectionChance >= 50 => outcome = "Full Victory"

\* C17 witness: the 7th accepted turn of the scenario ended the game in
\* Full Victory.
C17_Witness ==
    /\ ScenarioSession
    /\ Accepted
    /\ Len(ss.history) = 7
    /\ ss.game_over
    /\ outcome = "Full Victory"

\* C18: in both variants, Play Again leaves the game state of a freshly
\* created session: turn 1, support unset, public approval 50, progress 0,
\* risk 0, history and trend_log empty, game_over false, and no
\* reconciliation flag; every reset gives that same state.
C18_PlayAgainResets ==
    [][event' = "play_again" =>
           /\ ss'.turn = 1
           /\ ss'.support = None
           /\ ss'.public = 50
           /\ ss'.chamber_progress = 0
           /\ ss'.reelection_risk = 0
           /\ ss'.history = <<>>
           /\ ss'.trends = <<>>
           /\ ~ss'.game_over
           /\ "reconciliation_discussed" \notin DOMAIN ss'
           /\ ss' = InitialState
      ]_vars

\* C18 witness: the state Play Again left in a session of bill_simulator.py.
C18_Witness ==
    /\ variant = 1
    /\ event = "play_again"
    /\ ss = InitialState
    /\ branch = "form"

\* C19: in both variants, Play Again happens only from the final-results
\* view of a finished game; while game_over is false no run discards the
\* session state, and no run that processes a turn is a reset.
C19_ResetOnlyWhenOver ==
    /\ [][event' = "play_again" => (ss.game_over /\ branch = "final")]_vars
    /\ [][~ss.game_over =>
              /\ event' # "play_again"
              /\ ss'.turn >= ss.turn
              /\ Len(ss'.history) >= Len(ss.history)
              /\ Len(ss'.trends) >= Len(ss.trends)
              /\ DOMAIN ss \subseteq DOMAIN ss'
         ]_vars
    /\ [](Accepted => event = "submit")

\* C19 witness: Play Again was pressed in bill_simulator2.py and a new game
\* is on.
C19_Witness ==
    /\ variant = 2
    /\ event = "play_again"
    /\ ~ss.game_over
    /\ ss.turn = 1

ReconciliationFlag(s) ==
    "reconciliation_discussed" \in DOMAIN s /\ s.reconciliation_discussed

chamber_control(d, r) == IF d > r THEN "Democrats" ELSE "Republicans"

\* current_support = st.session_state.support or 0
current_support(s) == IF s.support = None THEN 0 ELSE s.support

context_note(s) ==
    IF s.turn = 1 THEN "At the start of the session"
    ELSE "Following previous actions"

\* Assigned before the prompt is built; the prompt does not interpolate it.
recon_note(s, chamber) ==
    IF s.reconciliation_discussed /\ chamber = "Senate"
    THEN "treat the Senate threshold as 51%"
    ELSE ""

\* {'below' if current_support < 51 else 'above'} the majority threshold
SupportZone(support) ==
    IF support < Pct(MajorityThreshold) THEN "below" ELSE "above"

user_prompt(s, action_text, cfg) ==
    [context_note |-> context_note(s), chamber |-> cfg.chamber,
     party |-> cfg.party, lean |-> cfg.lean, chamber_D |-> cfg.d,
     chamber_R |-> chamber_R_of(cfg.chamber, cfg.d),
     chamber_control |->
         chamber_control(cfg.d, chamber_R_of(cfg.chamber, cfg.d)),
     support |-> current_support(s),
     zone |-> SupportZone(current_support(s)),
     public |-> s.public, chamber_progress |-> s.chamber_progress,
     reelection_risk |-> s.reelection_risk, action |-> action_text]

\* The state the prompt is built from: the pre-prompt setup has run.
PromptState(s, action_text, cfg) ==
    PrePromptState(1, s, action_text, cfg.party, cfg.d,
                   chamber_R_of(cfg.chamber, cfg.d))

PassageThreshold(chamber, flag) ==
    IF chamber = "House" THEN MajorityThreshold
    ELSE IF flag THEN MajorityThreshold ELSE ClotureThreshold

ConfigAfter ==
    [chamber |-> your_chamber', party |-> your_party',
     lean |-> district_lean', d |-> chamber_D']

\* C21: in bill_simulator.py, the request classifies current support as
\* below or above the passage threshold of the chamber (51 for the House,
\* 60 for the Senate, 51 for the Senate once the reconciliation flag is
\* set), and two Senate requests built from the same state and action
\* differ when the flag differs.
C21_ThresholdInRequest ==
    [][(variant = 1 /\ event' = "submit" /\ action' # <<>>) =>
           LET s == PromptState(ss, action', ConfigAfter)
               req == user_prompt(s, action', ConfigAfter)
               flipped == [s EXCEPT !.reconciliation_discussed = ~@]
           IN  /\ req.zone =
                     (IF req.support
                            < Pct(PassageThreshold(your_chamber',
                                      s.reconciliation_discussed))
                      THEN "below" ELSE "above")
               /\ your_chamber' = "Senate" =>
                     user_prompt(flipped, action', ConfigAfter) # req
      ]_vars

\* C21, first half alone: the classification of current support.
C21_ZoneUsesChamberThreshold ==
    [][(variant = 1 /\ event' = "submit" /\ action' # <<>>) =>
           LET s == PromptState(ss, action', ConfigAfter)
               req == user_prompt(s, action', ConfigAfter)
           IN  req.zone =
                   (IF req.support
                          < Pct(PassageThreshold(your_chamber',
                                    s.reconciliation_discussed))
                    THEN "below" ELSE "above")
      ]_vars

\* C22: in both variants, the configuration (chamber, party, district lean,
\* seat composition) read by turn processing and by the reelection-chance
\* computation has the same value in every run of a session from the first
\* accepted turn on.
C22_ConfigurationFixed ==
    [][(Len(ss.history) >= 1 /\ event' # "play_again") =>
           config' = config
      ]_vars

GameStateFields ==
    {"turn", "support", "public", "chamber_progress", "reelection_risk",
     "history", "trends"}

C24_SupportUnsetUntilAccepted ==
    /\ (ss.support = None) <=> (ss.history = <<>>)
    /\ ss.support = None => ss.turn = 1
    /\ Accepted => (ss.support # None /\ ss.support >= 0)

\* C25: in both variants, a victory (Full or Costly) is declared only in a
\* state where support is at least the chamber's passage threshold: 51 for
\* the House, 60 for the Senate, 51 once reconciliation is in use; progress
\* does not reach 100 while support is below it.
C25_VictoryNeedsThreshold ==
    (Accepted /\ (outcome \in Victories \/ ss.chamber_progress >= 100)) =>
        ss.support
            >= Pct(PassageThreshold(your_chamber, ReconciliationFlag(ss)))

\* C26: in both variants, every progress update is
\* clamp(progress + chamber_progress_change, 0, 100) and nothing else
\* changes progress within a session: a change >= 0 never lowers it, a
\* negative change lowers it by that amount down to 0, a change of 0
\* leaves it.
C26_ProgressUpdate ==
    [][event' # "play_again" =>
           LET wrote == /\ event' = "submit"
                        /\ data' # NoData
                        /\ KeysRead(data') >= 3
               change == data'.chamber_progress_change
               sum == ss.chamber_progress + change
           IN  /\ ~wrote => ss'.chamber_progress = ss.chamber_progress
               /\ wrote =>
                     /\ ss'.chamber_progress =
                           (IF sum < 0 THEN 0
                            ELSE IF sum > 100 THEN 100 ELSE sum)
                     /\ change >= 0 =>
                           ss'.chamber_progress >= ss.chamber_progress
                     /\ change = 0 =>
                           ss'.chamber_progress = ss.chamber_progress
                     /\ (change < 0 /\ sum >= 0) =>
                           ss'.chamber_progress = ss.chamber_progress + change
      ]_vars

\* C26 witness: an accepted turn with a negative progress change lowered a
\* positive progress by exactly that amount.
C26_Witness ==
    /\ Accepted
    /\ Len(ss.trends) >= 2
    /\ data.chamber_progress_change < 0
    /\ ss.chamber_progress > 0
    /\ ss.chamber_progress =
          ss.trends[Len(ss.trends) - 1].ChamberProgress
              + data.chamber_progress_change

\* C27: in both variants, trend_log is append-only and consistent with the
\* state: row k has Turn = k; after the k-th accepted turn row k holds the
\* state's support, public approval, risk and progress and the chance
\* calc_reelection_chance gives on that state; earlier rows and earlier
\* history entries are unchanged by later runs.
C27_TrendLogAppendOnly ==
    /\ [](\A i \in 1..Len(ss.trends) : ss.trends[i].Turn = i)
    /\ [](Accepted =>
             /\ Len(ss.trends) = Len(ss.history)
             /\ LastRow.Support = ss.support
             /\ LastRow.Public = ss.public
             /\ LastRow.ReelectionRisk = ss.reelection_risk
             /\ LastRow.ChamberProgress = ss.chamber_progress
             /\ LastRow.ReelectionChance =
                   calc_reelection_chance(your_party, district_lean, ss)
             /\ ss.history[Len(ss.history)] = <<action, narrative>>)
    /\ [][event' # "play_again" =>
              /\ Len(ss'.trends) >= Len(ss.trends)
              /\ \A i \in 1..Len(ss.trends) : ss'.trends[i] = ss.trends[i]
              /\ Len(ss'.history) >= Len(ss.history)
              /\ \A i \in 1..Len(ss.history) :
                     ss'.history[i] = ss.history[i]
         ]_vars

\* C27 witness: the third accepted turn changed the fields, so the three
\* rows differ.
C27_Witness ==
    /\ Accepted
    /\ Len(ss.trends) = 3
    /\ ss.trends[1].Support # ss.trends[2].Support
    /\ ss.trends[2].ChamberProgress # ss.trends[3].ChamberProgress

\* Submit Action with an empty text box, or Clear Box.
IdlePress == event' = "clear" \/ (event' = "submit" /\ action' = <<>>)

IdleFrame ==
    /\ ss'.turn = ss.turn
    /\ ss'.support = ss.support
    /\ ss'.public = ss.public
    /\ ss'.chamber_progress = ss.chamber_progress
    /\ ss'.reelection_risk = ss.reelection_risk
    /\ ss'.history = ss.history
    /\ ss'.trends = ss.trends
    /\ data' = NoData
    /\ narrative' = NoText
    /\ branch' \notin {"accepted", "raised"}

\* C28 (as claimed): in both variants, Submit with an empty text or Clear
\* Box is not an accepted action, makes no oracle call and leaves turn,
\* support, public approval, progress, risk, history, trend_log and
\* game_over unchanged, in any interleaving with accepted actions.
C28_IdlePressChangesNothing ==
    [][IdlePress => (IdleFrame /\ ss'.game_over = ss.game_over)]_vars

\* C28 (amended): as claimed for every field but game_over: the press that
\* follows the 8th accepted turn of an unfinished game (turn = 9) sets
\* game_over, as any run at turn 9 does; any other leaves it unchanged.
C28_IdlePressOnlyTimesOut ==
    [][IdlePress =>
           /\ IdleFrame
           /\ ss'.game_over = (ss.game_over \/ ss.turn > MaxTurns)
      ]_vars

\* C28 witness: Clear Box was pressed between accepted turns and the form
\* is up again, the game still on.
C28_Witness ==
    /\ event = "clear"
    /\ branch = "cleared"
    /\ Len(ss.history) >= 1
    /\ ~ss.game_over

\* C29: in both variants, turn processing is all-or-nothing for every
\* oracle reply: a run either updates support, public approval, progress
\* and risk and advances turn, history and trend_log by one, or changes
\* none of them.
C29_AllOrNothing ==
    [][event' # "play_again" =>
           \/ /\ branch' = "accepted"
              /\ ss'.turn = ss.turn + 1
              /\ Len(ss'.history) = Len(ss.history) + 1
              /\ Len(ss'.trends) = Len(ss.trends) + 1
           \/ /\ ss'.turn = ss.turn
              /\ ss'.history = ss.history
              /\ ss'.trends = ss.trends
              /\ ss'.support = ss.support
              /\ ss'.public = ss.public
              /\ ss'.chamber_progress = ss.chamber_progress
              /\ ss'.reelection_risk = ss.reelection_risk
      ]_vars

\* C30: in both variants, game_over implies progress >= 100, or support
\* established and below 20, or turn > 8; and after every accepted turn
\* progress >= 100 or support < 20 implies game_over.
C30_GameOverHasReason ==
    /\ ss.game_over =>
          \/ ss.chamber_progress >= 100
          \/ (ss.support # None /\ ss.support < 20 * Scale)
          \/ ss.turn > 8
    /\ Accepted =>
          ((ss.chamber_progress >= 100 \/ ss.support < 20 * Scale)
               => ss.game_over)

\* C30 witness: a game ended by the turn limit alone.
C30_Witness ==
    /\ ss.game_over
    /\ ss.turn > 8
    /\ ss.chamber_progress < 100
    /\ ss.support >= 20 * Scale

\* C31: in bill_simulator2.py, reelection_risk is never negative and never
\* decreases within a session: an accepted turn adds max(0, oracle
\* reelection_risk), so a negative oracle value leaves it unchanged, and
\* with public approval and configuration unchanged the reelection chance
\* computed by a turn is not above the one the pre-turn state gives.
C31_RiskNeverDecreases ==
    [][(variant = 2 /\ event' # "play_again") =>
           /\ ss.reelection_risk >= 0
           /\ ss'.reelection_risk >= ss.reelection_risk
           /\ branch' # "accepted" =>
                 ss'.reelection_risk = ss.reelection_risk
           /\ branch' = "accepted" =>
                 /\ data'.reelection_risk <= 0 =>
                       ss'.reelection_risk = ss.reelection_risk
                 /\ data'.reelection_risk > 0 =>
                       ss'.reelection_risk =
                           ss.reelection_risk + data'.reelection_risk
                 /\ (ss'.public = ss.public /\ config' = config) =>
                       reelection_chance'
                           <= calc_reelection_chance(your_party,
                                                     district_lean, ss)
      ]_vars

\* C31 witness: an accepted turn of bill_simulator2.py whose oracle risk
\* was negative left a positive risk where it was.
C31_Witness ==
    /\ variant = 2
    /\ Accepted
    /\ data.reelection_risk < 0
    /\ PreviousRisk > 0
    /\ ss.reelection_risk = PreviousRisk

\* C32: in both variants, with the configuration unchanged, the verdict of
\* the final-results view agrees with the outcome declared when the game
\* ended: after Costly Victory ("you lost reelection") the seat is reported
\* lost, after Full Victory ("you won reelection") it is not.
C32_VerdictAgreesWithOutcome ==
    [][(outcome \in Victories /\ branch' = "final" /\ config' = config) =>
           /\ outcome = "Costly Victory" => verdict' = "lost your seat"
           /\ outcome = "Full Victory" => verdict' # "lost your seat"
      ]_vars

\* C32, the Full Victory half alone.
C32_FullVictoryKeepsSeat ==
    [][(outcome = "Full Victory" /\ branch' = "final" /\ config' = config)
           => verdict' # "lost your seat"
      ]_vars

====
